---- MODULE Spec2Model ----
(***************************************************************************)
(* Model of src/psnr.py: the per-format frame layouts (classes YV12, IYUV, *)
(* NV12, UYVY, YVYU, YUY2, Y422), the YCbCr session constructor, the       *)
(* psnr() generator and its driver main.__cmd_psnr.                        *)
(*                                                                         *)
(* The program is Python 2 (print statements, xrange): "/" on two ints is  *)
(* floor division, written \div here.                                      *)
(***************************************************************************)
EXTENDS Integers, Sequences, FiniteSets, TLC

\* ------------------------------------------------------------------ bounds
\* Largest width and height drawn in the layout specification.
MaxDim == 4
\* Largest width and height drawn in the constructor and session specifications.
MaxSessDim == 2
\* Largest file size, in bytes, drawn in the constructor specification.
MaxSize == 7
\* Largest number of whole frames a file holds in the session specification.
MaxFrames == 2
\* Largest frame cap (--num) drawn.
MaxNum == 2

\* ------------------------------------------------------- program constants
\* Length of the zero-filled reference array of the skip rule.
ZerosLen == 311040
\* Peak sample value of the PSNR formula.
Peak == 255

\* ----------------------------------------------------------------- values
\* Python's None, where a format tag is expected.
NoneTag == "None"
\* An optional integer: None is <<>>, the integer n is <<n>>.
None == <<>>
Some(x) == <<x>>

supported_420 == {"YV12", "IYUV", "NV12"}
supported_422 == {"UYVY", "YVYU", "YUY2", "422"}
supported_extra == {NoneTag}
\* The keys of the reader/writer table RW.
RW == supported_420 \cup supported_422
\* A tag outside the enumeration, as a caller may pass it.
OtherTags == {"RGB24"}

Min(a, b) == IF a <= b THEN a ELSE b

\* A Python slice object (start, stop, step); slice(a, b) has step 1.
slice(a, b, c) == [start |-> a, stop |-> b, step |-> c]

\* ------------------------------------------------------ format descriptors
\* Y.get_420_partitioning: (0, wh, wh, wh/4*5, wh/4*5, wh/2*3).
get_420_partitioning(w, h) ==
    LET wh == w * h
    IN  <<0, wh, wh, (wh \div 4) * 5, (wh \div 4) * 5, (wh \div 2) * 3>>

\* Y.get_422_partitioning: (0, wh, wh, wh/2*3, wh/2*3, wh*2).
get_422_partitioning(w, h) ==
    LET wh == w * h
    IN  <<0, wh, wh, (wh \div 2) * 3, (wh \div 2) * 3, wh * 2>>

\* <format>.get_frame_size.
get_frame_size(fmt, w, h) ==
    IF fmt \in supported_420 THEN (w * h * 3) \div 2 ELSE w * h * 2

\* <format>.get_layout, one per class: the tuple of three slices, in the order
\* returned. __read_frame takes the first as Y, the second as Cb, the third as Cr.
YV12_get_layout(w, h) ==
    LET p == get_420_partitioning(w, h)
    IN  <<slice(p[1], p[2], 1), slice(p[3], p[4], 1), slice(p[5], p[6], 1)>>

IYUV_get_layout(w, h) ==
    LET p == get_420_partitioning(w, h)
    IN  <<slice(p[1], p[2], 1), slice(p[5], p[6], 1), slice(p[3], p[4], 1)>>

NV12_get_layout(w, h) ==
    LET p == get_420_partitioning(w, h)
    IN  <<slice(p[1], p[2], 1), slice(p[3], p[6], 2), slice(p[3] + 1, p[6], 2)>>

UYVY_get_layout(w, h) ==
    LET fs == get_frame_size("UYVY", w, h)
    IN  <<slice(1, fs, 2), slice(0, fs, 4), slice(2, fs, 4)>>

\* YVYU.get_layout as it would be with the two chroma slices exchanged.
YVYU_get_layout_exchanged(w, h) ==
    LET fs == get_frame_size("YVYU", w, h)
    IN  <<slice(0, fs, 2), slice(1, fs, 4), slice(3, fs, 4)>>

YVYU_get_layout(w, h) ==
    LET fs == get_frame_size("YVYU", w, h)
    IN  <<slice(0, fs, 2), slice(3, fs, 4), slice(1, fs, 4)>>

YUY2_get_layout(w, h) ==
    LET fs == get_frame_size("YUY2", w, h)
    IN  <<slice(0, fs, 2), slice(1, fs, 4), slice(3, fs, 4)>>

Y422_get_layout(w, h) ==
    LET p == get_422_partitioning(w, h)
    IN  <<slice(p[1], p[2], 1), slice(p[3], p[4], 1), slice(p[5], p[6], 1)>>

\* RW[fmt](w, h).get_layout(): the class the table RW names for the tag.
get_layout(fmt, w, h) ==
    CASE fmt = "YV12" -> YV12_get_layout(w, h)
      [] fmt = "IYUV" -> IYUV_get_layout(w, h)
      [] fmt = "NV12" -> NV12_get_layout(w, h)
      [] fmt = "UYVY" -> UYVY_get_layout(w, h)
      [] fmt = "YVYU" -> YVYU_get_layout(w, h)
      [] fmt = "YUY2" -> YUY2_get_layout(w, h)
      [] fmt = "422"  -> Y422_get_layout(w, h)

\* ------------------------------------------------------- numpy indexing
\* Number of elements array[s] selects from an array of length len
\* (start >= 0, stop >= 0, step > 0: the stop is clipped to the length).
SliceLen(s, len) ==
    LET hi == Min(s.stop, len)
    IN  IF hi > s.start THEN (hi - s.start + s.step - 1) \div s.step ELSE 0

\* The 0-based positions array[s] selects, in order.
SlicePos(s, len) == [k \in 1..SliceLen(s, len) |-> s.start + (k - 1) * s.step]

\* array[s]: the selected elements (array is 1-based here, positions 0-based).
Index(array, s) ==
    LET pos == SlicePos(s, Len(array))
    IN  [k \in 1..Len(pos) |-> array[pos[k] + 1]]

\* ------------------------------------------------------------------ state
VARIABLES
    width, height,          \* YCbCr.width, YCbCr.height
    yuv_format_in,          \* YCbCr.yuv_format_in
    yuv_format_out,         \* YCbCr.yuv_format_out
    filename_diff,          \* whether a second file name was given (else None)
    num,                    \* the num argument: None or Some(n)
    filesize,               \* <<bytes of filename, bytes of filename_diff>>
    frame_size_in,          \* YCbCr.frame_size_in (0 while the attribute is unset)
    layout_in,              \* YCbCr.layout_in (<<>> while the attribute is unset)
    num_frames,             \* YCbCr.num_frames: None while unset, else Some(n)
    raw, yy, cb, cr,        \* YCbCr.raw, .yy, .cb, .cr
    pc,                     \* position of the driver / the generator
    outcome,                \* what the last call handed back: result or exception
    io,                     \* the file operations performed so far, in order
    acc,                    \* psnr() locals yy, cb, cr, bd (the four series)
    frame1, frame2,         \* psnr() locals: planes of the current frame pair
    i,                      \* psnr() loop variable: frame pairs consumed so far
    fd,                     \* <<state of fd_1, state of fd_2>>
    hist                    \* per consumed frame pair, what the pair looked like

inputs  == <<width, height, yuv_format_in, yuv_format_out, filename_diff, num,
             filesize>>
fields  == <<frame_size_in, layout_in, num_frames>>
planes  == <<raw, yy, cb, cr>>
locals  == <<acc, frame1, frame2, i, hist>>
vars    == <<inputs, fields, planes, locals, pc, outcome, io, fd>>

NoOutcome == [kind |-> "none", tag |-> "", value |-> <<>>]
Raised(k, t) == [kind |-> k, tag |-> t, value |-> <<>>]

\* The state before YCbCr(...) is called, apart from the arguments.
Fresh ==
    /\ frame_size_in = 0
    /\ layout_in = <<>>
    /\ num_frames = None
    /\ raw = <<>> /\ yy = <<>> /\ cb = <<>> /\ cr = <<>>
    /\ pc = "new"
    /\ outcome = NoOutcome
    /\ io = <<>>
    /\ acc = [yy |-> <<>>, cb |-> <<>>, cr |-> <<>>, bd |-> <<>>]
    /\ frame1 = <<>> /\ frame2 = <<>>
    /\ i = 0
    /\ fd = <<"none", "none">>
    /\ hist = <<>>

\* ------------------------------------------------------------ constructor
\* The os.path.getsize calls of __init__ (lines 292-295), in order.
SizeProbes == IF filename_diff THEN <<"getsize 1", "getsize 2">> ELSE <<"getsize 1">>

\* The os.path.getsize calls of __check (lines 364-369), in order.
CheckProbes == IF filename_diff THEN <<"getsize 1", "getsize 2">> ELSE <<"getsize 1">>

\* num_frames as it would be were the second file's size never looked at.
FramesAvailable_first_file_only(fs) == filesize[1] \div fs

\* num_frames as lines 292-297 compute it.
FramesAvailable(fs) ==
    LET n1 == filesize[1] \div fs
        n2 == IF filename_diff THEN filesize[2] \div fs ELSE n1
    IN  Min(n1, n2)

\* num_frames after lines 315-317 (the cap), given its value before them.
Capped(n) == IF num # None /\ num[1] # 0 /\ num[1] <= n THEN num[1] ELSE n

\* The format test as it would be with supported_422 left out of the list.
Accepted_without_422(fmt) == fmt \in supported_420 \cup supported_extra

\* Whether __init__ accepts a format argument (lines 248-254).
Accepted(fmt) == fmt \in supported_420 \cup supported_422 \cup supported_extra

\* YCbCr.__init__.
Construct ==
    /\ pc = "new"
    /\ UNCHANGED <<inputs, planes, locals, fd>>
    /\ IF ~Accepted(yuv_format_in)
       THEN /\ outcome' = Raised("NameError", yuv_format_in)
            /\ pc' = "ctor_error"
            /\ UNCHANGED <<fields, io>>
       ELSE IF ~Accepted(yuv_format_out)
       THEN /\ outcome' = Raised("NameError", yuv_format_out)
            /\ pc' = "ctor_error"
            /\ UNCHANGED <<fields, io>>
       ELSE IF yuv_format_in = NoneTag
       THEN \* no reader is set up; "if num:" then reads the missing num_frames
            /\ UNCHANGED <<fields, io>>
            /\ IF num # None /\ num[1] # 0
               THEN /\ outcome' = Raised("AttributeError", "num_frames")
                    /\ pc' = "ctor_error"
               ELSE /\ outcome' = NoOutcome
                    /\ pc' = "constructed"
       ELSE LET fs == get_frame_size(yuv_format_in, width, height)
            IN  /\ frame_size_in' = fs
                /\ layout_in' = get_layout(yuv_format_in, width, height)
                /\ num_frames' = Some(Capped(FramesAvailable(fs)))
                /\ io' = io \o SizeProbes \o CheckProbes
                /\ outcome' = NoOutcome
                /\ pc' = "constructed"

\* --------------------------------------------------------------- frames
\* YCbCr.__read_frame applied to the bytes read: the new (raw, yy, cb, cr).
read_frame(bytes) ==
    [raw |-> bytes,
     yy  |-> Index(bytes, layout_in[1]),
     cb  |-> Index(bytes, layout_in[2]),
     cr  |-> Index(bytes, layout_in[3])]

\* The frame of the given size whose byte at position p holds the value p.
Ramp(fs) == [k \in 1..fs |-> k - 1]

\* __read_frame on a frame whose bytes are tagged with their own positions.
ReadRamp ==
    /\ pc = "constructed"
    /\ yuv_format_in # NoneTag
    /\ LET f == read_frame(Ramp(frame_size_in))
       IN  /\ raw' = f.raw /\ yy' = f.yy /\ cb' = f.cb /\ cr' = f.cr
    /\ pc' = "extracted"
    /\ UNCHANGED <<inputs, fields, locals, outcome, io, fd>>

\* ------------------------------------------------- layout specification
InitLayout ==
    /\ width \in 1..MaxDim
    /\ height \in 1..MaxDim
    /\ yuv_format_in \in RW
    /\ yuv_format_out = NoneTag
    /\ filename_diff = TRUE
    /\ num = None
    /\ filesize = <<get_frame_size(yuv_format_in, width, height),
                    get_frame_size(yuv_format_in, width, height)>>
    /\ Fresh

NextLayout == Construct \/ ReadRamp

SpecLayout == InitLayout /\ [][NextLayout]_vars

\* -------------------------------------------- constructor specification
InitCtor ==
    /\ width \in 1..MaxSessDim
    /\ height \in 1..MaxSessDim
    /\ yuv_format_in \in RW \cup supported_extra \cup OtherTags
    /\ yuv_format_out \in RW \cup supported_extra \cup OtherTags
    /\ filename_diff \in BOOLEAN
    /\ num \in {None} \cup {Some(n) : n \in 0..MaxNum}
    /\ filesize \in (0..MaxSize) \X (0..MaxSize)
    /\ Fresh

NextCtor == Construct

SpecCtor == InitCtor /\ [][NextCtor]_vars

\* ----------------------------------------------------------------- floats
\* A float is NaN, or finite. A finite PSNR is kept as the pair (sse, n) it is
\* 10*log10(Peak^2 * n / sse) of; sums and quotients of finite values are kept as
\* terms. Finite values stay finite here: a PSNR lies in [0, 10*log10(Peak^2 * n)].
NaN == <<"nan">>
IsNaN(v) == v[1] = "nan"

RECURSIVE SumSq(_, _)
\* ((a - b) ** 2).sum() over two equally long integer arrays.
SumSq(a, b) ==
    IF Len(a) = 0 THEN 0
    ELSE (a[1] - b[1]) * (a[1] - b[1]) + SumSq(Tail(a), Tail(b))

\* The inner psnr(a, b) as it would be without the "if m == 0" test: the
\* quotient Peak^2 / 0 is then infinite, and so is its logarithm.
psnr_without_zero_test(a, b) ==
    IF Len(a) = 0 THEN NaN ELSE <<"psnr", SumSq(a, b), Len(a), Peak>>

\* The inner psnr(a, b) of YCbCr.psnr. The mean of an empty array is nan, which
\* is not == 0 and which the logarithm hands on.
psnr(a, b) ==
    IF Len(a) = 0 THEN NaN
    ELSE IF SumSq(a, b) = 0 THEN NaN
    ELSE <<"psnr", SumSq(a, b), Len(a), Peak>>

\* (6 * y + u + v) / 8.0
composite(y, u, v) ==
    IF IsNaN(y) \/ IsNaN(u) \/ IsNaN(v) THEN NaN ELSE <<"bd", y, u, v>>

\* The mean as it would be were not-a-number entries left out of the sum (as
\* numpy.nanmean does): not-a-number only when every entry is.
mean_ignoring_nan(l) ==
    IF \A k \in 1..Len(l) : IsNaN(l[k]) THEN NaN
    ELSE <<"mean", SelectSeq(l, LAMBDA v : ~IsNaN(v))>>

\* sum(l) / len(l) of a non-empty list of floats.
mean(l) ==
    IF \E k \in 1..Len(l) : IsNaN(l[k]) THEN NaN ELSE <<"mean", l>>

\* ndarray.all(): every element is non-zero (true of the empty array).
np_all(a) == \A k \in 1..Len(a) : a[k] # 0

\* np.array([0] * n).all(): n zeros, so true only when n = 0.
zeros_all(n) == n = 0

\* The condition of line 341: the frame pair is scored.
scored(luma2) == ~(np_all(luma2) = zeros_all(ZerosLen))

\* ------------------------------------------------------------ file contents
\* The sample values drawn for the bytes of a frame.
Samples == {0, 1}
\* The frames np.fromfile hands over: the bytes of a frame repeat a pattern of
\* two samples, so a plane is all zero, free of zeros, or mixed.
Patterns == Samples \X Samples
Frames(fs) == {[k \in 1..fs |-> pat[((k - 1) % Len(pat)) + 1]] : pat \in Patterns}

\* ---------------------------------------------------------- psnr() generator
\* The first next() on yuv.psnr(): the two open() calls of the with statement.
\* Whether the system lets each file be opened is the environment's choice
\* (ok1, ok2); open(None) raises TypeError. A failure of the second open()
\* leaves the with statement through fd_1, which is closed.
OpenFiles(ok1, ok2) ==
    IF ~ok1
    THEN /\ io' = io \o <<"open 1">>
         /\ fd' = <<"none", "none">>
         /\ outcome' = Raised("IOError", "filename")
         /\ pc' = "gen_error"
    ELSE IF ~filename_diff
    THEN /\ io' = io \o <<"open 1">>
         /\ fd' = <<"closed", "none">>
         /\ outcome' = Raised("TypeError", "filename_diff")
         /\ pc' = "gen_error"
    ELSE IF ~ok2
    THEN /\ io' = io \o <<"open 1", "open 2">>
         /\ fd' = <<"closed", "none">>
         /\ outcome' = Raised("IOError", "filename_diff")
         /\ pc' = "gen_error"
    ELSE /\ io' = io \o <<"open 1", "open 2">>
         /\ fd' = <<"open", "open">>
         /\ outcome' = NoOutcome
         /\ pc' = "loop"

Open ==
    /\ pc = "constructed"
    /\ UNCHANGED <<inputs, fields, planes, locals>>
    /\ \E ok1 \in BOOLEAN, ok2 \in BOOLEAN : OpenFiles(ok1, ok2)

\* What a frame pair looked like, recorded from the bytes read.
Seen(b1, b2, f1, f2, used) ==
    [sameRaw |-> b1 = b2,
     same    |-> <<f1.yy = f2.yy, f1.cb = f2.cb, f1.cr = f2.cr>>,
     zeros2  |-> Cardinality({k \in 1..Len(f2.yy) : f2.yy[k] = 0}),
     luma2   |-> Len(f2.yy),
     used    |-> used]

\* One iteration of the for loop (lines 333-345) on the bytes b1, b2 read.
Score(b1, b2) ==
    LET f1 == read_frame(b1)
        f2 == read_frame(b2)
        y  == psnr(f1.yy, f2.yy)
        u  == psnr(f1.cb, f2.cb)
        v  == psnr(f1.cr, f2.cr)
        used == scored(f2.yy)
    IN  /\ frame1' = <<f1.yy, f1.cb, f1.cr>>
        /\ frame2' = <<f2.yy, f2.cb, f2.cr>>
        /\ raw' = f2.raw /\ yy' = f2.yy /\ cb' = f2.cb /\ cr' = f2.cr
        /\ acc' = IF used
                  THEN [yy |-> Append(acc.yy, y),
                        cb |-> Append(acc.cb, u),
                        cr |-> Append(acc.cr, v),
                        bd |-> Append(acc.bd, composite(y, u, v))]
                  ELSE acc
        /\ hist' = Append(hist, Seen(b1, b2, f1, f2, used))

Iterate ==
    /\ pc = "loop"
    /\ i < num_frames[1]
    /\ \E b1 \in Frames(frame_size_in), b2 \in Frames(frame_size_in) : Score(b1, b2)
    /\ i' = i + 1
    /\ io' = io \o <<"read 1", "read 2">>
    /\ UNCHANGED <<inputs, fields, pc, outcome, fd>>

\* A read of the loop raises (np.fromfile fails): the with statement closes both.
ReadError ==
    /\ pc = "loop"
    /\ i < num_frames[1]
    /\ fd' = <<"closed", "closed">>
    /\ outcome' = Raised("IOError", "read")
    /\ pc' = "gen_error"
    /\ UNCHANGED <<inputs, fields, planes, locals, io>>

\* Line 348: the four means are computed and yielded, inside the with block.
Yield ==
    /\ pc = "loop"
    /\ i >= num_frames[1]
    /\ UNCHANGED <<inputs, fields, planes, locals, io>>
    /\ IF Len(acc.yy) = 0
       THEN /\ outcome' = Raised("ZeroDivisionError", "")
            /\ fd' = <<"closed", "closed">>
            /\ pc' = "gen_error"
       ELSE /\ outcome' = [kind |-> "result", tag |-> "",
                           value |-> <<mean(acc.yy), mean(acc.cb),
                                       mean(acc.cr), mean(acc.bd)>>]
            /\ fd' = fd
            /\ pc' = "yielded"

\* main.__cmd_psnr: the body of the for loop prints the result.
Report ==
    /\ pc = "yielded"
    /\ pc' = "printed"
    /\ io' = io \o <<"print">>
    /\ UNCHANGED <<inputs, fields, planes, locals, outcome, fd>>

\* The end of the generator as it would be had the files been opened without
\* the with statement.
Resume_without_close ==
    /\ pc = "printed"
    /\ outcome' = Raised("StopIteration", "")
    /\ pc' = "done"
    /\ UNCHANGED <<inputs, fields, planes, locals, io, fd>>

\* main.__cmd_psnr: the for loop asks for the next item; the generator leaves
\* the with block and ends.
Resume ==
    /\ pc = "printed"
    /\ fd' = <<"closed", "closed">>
    /\ outcome' = Raised("StopIteration", "")
    /\ pc' = "done"
    /\ UNCHANGED <<inputs, fields, planes, locals, io>>

\* ------------------------------------------------- session specification
\* The arguments as the command line hands them over: a format out of the
\* parser's choices, both file names, no output format; files of whole frames.
Init ==
    /\ width \in 1..MaxSessDim
    /\ height \in 1..MaxSessDim
    /\ yuv_format_in \in RW
    /\ yuv_format_out = NoneTag
    /\ filename_diff = TRUE
    /\ num \in {None} \cup {Some(n) : n \in 0..MaxNum}
    /\ \E na \in 0..MaxFrames, nb \in 0..MaxFrames :
          filesize = <<na * get_frame_size(yuv_format_in, width, height),
                       nb * get_frame_size(yuv_format_in, width, height)>>
    /\ Fresh

Next == Construct \/ Open \/ Iterate \/ ReadError \/ Yield \/ Report \/ Resume

Spec == Init /\ [][Next]_vars

\* ================================================================ claims
\* The byte positions a plane extracted from the position-tagged frame holds.
Positions(plane) == {plane[k] : k \in 1..Len(plane)}
\* The positions a, a+1, ..., b-1.
Range(a, b) == a..(b - 1)
wh == width * height

\* ---- C1 (stated as claimed; the code violates it) -------------------------
\* C1: for every format and every positive width and height, the three slices
\* of get_layout() address pairwise disjoint byte positions inside
\* [0, frame_size) and together exactly frame_size positions.
C1_LayoutPartitionsFrame ==
    pc = "extracted" =>
        /\ Positions(yy) \cap Positions(cb) = {}
        /\ Positions(yy) \cap Positions(cr) = {}
        /\ Positions(cb) \cap Positions(cr) = {}
        /\ Positions(yy) \cup Positions(cb) \cup Positions(cr)
              = Range(0, get_frame_size(yuv_format_in, width, height))
        /\ Len(yy) + Len(cb) + Len(cr)
              = get_frame_size(yuv_format_in, width, height)

\* ---- C2 (stated as claimed; the code violates it) -------------------------
\* C2: under YV12 the plane extracted as Cr is bytes [wh, wh*5/4) and the plane
\* extracted as Cb is bytes [wh*5/4, wh*3/2); under IYUV Cb is [wh, wh*5/4) and
\* Cr is [wh*5/4, wh*3/2).
C2_PlanarChromaOrder ==
    pc = "extracted" =>
        /\ yuv_format_in = "YV12" =>
              /\ Positions(cr) = Range(wh, (wh * 5) \div 4)
              /\ Positions(cb) = Range((wh * 5) \div 4, (wh * 3) \div 2)
        /\ yuv_format_in = "IYUV" =>
              /\ Positions(cb) = Range(wh, (wh * 5) \div 4)
              /\ Positions(cr) = Range((wh * 5) \div 4, (wh * 3) \div 2)

\* ---- C3 ------------------------------------------------------------------
\* The (start, stop, stride) of the slices __read_frame takes as Y, Cb and Cr.
SlicesAre(y, u, v) ==
    /\ layout_in[1] = slice(y[1], frame_size_in, y[2])
    /\ layout_in[2] = slice(u[1], frame_size_in, u[2])
    /\ layout_in[3] = slice(v[1], frame_size_in, v[2])

\* C3 as claimed: UYVY has Y at (0, 2), Cb at (0, 4), Cr at (2, 4); YVYU has Y
\* at (0, 2), Cr at (1, 4), Cb at (3, 4); YUY2 has Y at (0, 2), Cb at (1, 4),
\* Cr at (3, 4); every slice stops at frame_size.
C3_PackedTableAsClaimed ==
    pc \in {"constructed", "extracted"} =>
        /\ yuv_format_in = "UYVY" => SlicesAre(<<0, 2>>, <<0, 4>>, <<2, 4>>)
        /\ yuv_format_in = "YVYU" => SlicesAre(<<0, 2>>, <<3, 4>>, <<1, 4>>)
        /\ yuv_format_in = "YUY2" => SlicesAre(<<0, 2>>, <<1, 4>>, <<3, 4>>)

\* C3 amended: as claimed, except that UYVY has Y at (1, 2): its luma samples
\* are the odd bytes of the group U0 Y0 V0 Y1.
C3_PackedTable ==
    pc \in {"constructed", "extracted"} =>
        /\ yuv_format_in = "UYVY" => SlicesAre(<<1, 2>>, <<0, 4>>, <<2, 4>>)
        /\ yuv_format_in = "YVYU" => SlicesAre(<<0, 2>>, <<3, 4>>, <<1, 4>>)
        /\ yuv_format_in = "YUY2" => SlicesAre(<<0, 2>>, <<1, 4>>, <<3, 4>>)

\* A UYVY frame of more than one group has been extracted: Y holds the odd
\* positions, Cb every fourth from 0, Cr every fourth from 2.
C3_Witness ==
    /\ pc = "extracted"
    /\ yuv_format_in = "UYVY"
    /\ wh = 4
    /\ yy = <<1, 3, 5, 7>> /\ cb = <<0, 4>> /\ cr = <<2, 6>>

\* ---- C4 ------------------------------------------------------------------
\* floor(size / frame_size) of the two files, from the arguments alone.
FloorA == filesize[1] \div get_frame_size(yuv_format_in, width, height)
FloorB == filesize[2] \div get_frame_size(yuv_format_in, width, height)

\* C4: the loop of psnr() runs over xrange(num_frames), and with both files
\* given num_frames is min(floor(size_a / frame_size), floor(size_b /
\* frame_size), num) for a positive cap num and the min of the two floors
\* without one.
C4_FrameCount ==
    (pc = "constructed" /\ yuv_format_in \in RW /\ filename_diff) =>
        num_frames = IF num # None /\ num[1] > 0
                     THEN Some(Min(Min(FloorA, FloorB), num[1]))
                     ELSE Some(Min(FloorA, FloorB))

\* File B holds fewer whole frames than file A and the cap exceeds what file B
\* holds: only file B's frames are counted.
C4_Witness ==
    /\ pc = "constructed"
    /\ yuv_format_in \in RW /\ filename_diff
    /\ FloorB >= 1 /\ FloorB < FloorA
    /\ num # None /\ num[1] > FloorB
    /\ num_frames = Some(FloorB)

\* ---- C6 ------------------------------------------------------------------
\* The format arguments outside a set of values, input format first.
Outside(S) == SelectSeq(<<yuv_format_in, yuv_format_out>>, LAMBDA t : t \notin S)

\* C6 as claimed: a format argument with any value outside the seven tags makes
\* the construction fail with the unsupported-format error naming the tag,
\* before any file operation.
C6_RejectsAllOutsideSevenTags ==
    (pc # "new" /\ Outside(RW) # <<>>) =>
        /\ outcome.kind = "NameError"
        /\ outcome.tag \in {yuv_format_in, yuv_format_out} \ RW
        /\ io = <<>>

\* C6 amended: a format argument with any value other than None outside the
\* seven tags makes the construction fail with the unsupported-format error
\* naming the (first such) tag, before any file operation; None, the absent
\* format, and the seven tags are accepted.
C6_RejectsUnsupportedBeforeIO ==
    pc # "new" =>
        IF Outside(RW \cup {NoneTag}) # <<>>
        THEN /\ pc = "ctor_error"
             /\ outcome = Raised("NameError", Outside(RW \cup {NoneTag})[1])
             /\ io = <<>>
        ELSE outcome.kind # "NameError"

\* A supported input format with the output format RGB24 has been refused,
\* naming RGB24, with no file touched.
C6_Witness ==
    /\ pc = "ctor_error"
    /\ yuv_format_in = "YV12" /\ yuv_format_out = "RGB24"
    /\ outcome = Raised("NameError", "RGB24")
    /\ io = <<>>

\* ---- session claims -------------------------------------------------------
\* The loop of psnr() has run over all its frame pairs and psnr() has handed
\* back a result or raised at line 348.
LoopCompleted ==
    /\ pc \in {"yielded", "gen_error"}
    /\ fd[2] # "none"
    /\ i = num_frames[1]

\* The frame pairs consumed so far that entered the four series.
Used == {k \in 1..Len(hist) : hist[k].used}

\* ---- C5 (stated as claimed; the code violates it) -------------------------
\* C5: when no frame pair contributed to the series (N = 0, or every pair was
\* excluded), psnr() ends in the no-data error, not in a numeric result and not
\* in an arithmetic failure.
C5_EmptySeriesIsNoDataError ==
    (LoopCompleted /\ Used = {}) => outcome.kind = "NoDataError"

\* ---- C7 ------------------------------------------------------------------
\* Two files of k >= 1 whole frames each, the same bytes in every pair read.
IdenticalFiles ==
    /\ filesize[1] = filesize[2]
    /\ filesize[1] >= frame_size_in
    /\ \A k \in 1..Len(hist) : hist[k].sameRaw

\* C7 as claimed: on two byte-identical files of k >= 1 frames, whatever the
\* frames hold, psnr() returns not-a-number in all four fields.
C7_IdenticalFilesAllNaN ==
    (LoopCompleted /\ IdenticalFiles) =>
        /\ outcome.kind = "result"
        /\ \A f \in 1..4 : IsNaN(outcome.value[f])

\* C7 amended: on two byte-identical files of k >= 1 frames psnr() returns
\* not-a-number in all four fields, provided at least one of the frame pairs
\* is not excluded by the skip rule (with every pair excluded the series are
\* empty and there is no result).
C7_IdenticalFilesAllNaNWhenScored ==
    (LoopCompleted /\ IdenticalFiles /\ Used # {}) =>
        /\ outcome.kind = "result"
        /\ \A f \in 1..4 : IsNaN(outcome.value[f])

\* Two identical files of two frames, both pairs in the series, have given
\* not-a-number four times.
C7_Witness ==
    /\ pc = "yielded"
    /\ IdenticalFiles
    /\ Len(hist) = 2 /\ Cardinality(Used) = 2
    /\ \A f \in 1..4 : IsNaN(outcome.value[f])

\* ---- C8 ------------------------------------------------------------------
NeitherOpen == fd[1] # "open" /\ fd[2] # "open"

\* C8 as claimed: when psnr() has handed its final result to the caller, and
\* when it has ended with an error, neither stream is open.
C8_ClosedWhenResultHandedOver ==
    pc \in {"yielded", "gen_error"} => NeitherOpen

\* C8 amended: neither stream is open once psnr() has ended, be it with an
\* error (a failed open of either file, a failed read, the failure of line 348)
\* or because the caller's loop resumed it after its one result; while the
\* result is with the caller and psnr() is suspended at its yield, both
\* streams are still open.
C8_ClosedWhenGeneratorEnds ==
    /\ pc \in {"done", "gen_error"} => NeitherOpen
    /\ pc \in {"yielded", "printed"} => fd = <<"open", "open">>

\* The caller's loop has resumed psnr() after a result over at least one
\* frame pair, and both streams, opened before, are closed.
C8_Witness ==
    /\ pc = "done"
    /\ Len(hist) >= 1
    /\ fd = <<"closed", "closed">>

\* ---- C9 (stated as claimed; the code violates it) -------------------------
\* C9: a frame pair is left out of the four series exactly when the second
\* file's luma plane is all zero; every other pair adds one entry to each of
\* the four series.
C9_SkipsOnlyAllZeroLuma ==
    /\ \A k \in 1..Len(hist) : hist[k].used = (hist[k].zeros2 # hist[k].luma2)
    /\ \A s \in {acc.yy, acc.cb, acc.cr, acc.bd} : Len(s) = Cardinality(Used)

\* ---- C10 -----------------------------------------------------------------
\* C10: the mean returned for plane p is not-a-number exactly when some pair
\* that entered the series had identical p planes, and the composite is
\* not-a-number exactly when some such pair had any of its planes identical.
C10_SentinelAbsorbing ==
    pc = "yielded" =>
        /\ \A p \in 1..3 :
              IsNaN(outcome.value[p]) = (\E k \in Used : hist[k].same[p])
        /\ IsNaN(outcome.value[4])
              = (\E k \in Used : \E p \in 1..3 : hist[k].same[p])

\* Two pairs entered the series; one had identical Cb planes, the other had
\* not; no pair had identical Y planes: the Cb mean is not-a-number, the Y
\* mean is a number, the composite is not-a-number.
C10_Witness ==
    /\ pc = "yielded"
    /\ Cardinality(Used) = 2
    /\ \E k \in Used : hist[k].same[2]
    /\ \E k \in Used : ~hist[k].same[2]
    /\ \A k \in Used : ~hist[k].same[1]
    /\ IsNaN(outcome.value[2]) /\ ~IsNaN(outcome.value[1])
    /\ IsNaN(outcome.value[4])

====
